---- MODULE Spec2Model ----
(***************************************************************************)
(* Model of betterjeb's launch-to-orbit program (src/bin/lto.rs, main):    *)
(* the phases of the guidance sequence, the per-tick decisions of the      *)
(* ascent loop, the circularization planner and the burn executor.         *)
(*                                                                         *)
(* Numbers.  Altitudes and apoapsides are whole metres.  Angles are        *)
(* integers in units of 1/AngleScale degree; AngleScale is chosen so that  *)
(* 90/(TURN_END_ALT - TURN_START_ALT) degrees per metre is the integer     *)
(* DegPerMetre and 0.5 degree is the integer HalfDegree, hence the pitch   *)
(* program is exact on whole-metre altitudes.  Times are integers in       *)
(* quarter seconds.                                                        *)
(***************************************************************************)
EXTENDS Integers, Sequences, FiniteSets, TLC

\* ---------------------------------------------------------------- constants
TURN_START_ALT == 250
TURN_END_ALT == 45000
TARGET_ALTITUDE == 74000
\* line 205: the atmosphere-exit threshold of the coast gate
COAST_ALTITUDE == 70500

AngleScale == 2 * 4475
DegPerMetre == (90 * AngleScale) \div (TURN_END_ALT - TURN_START_ALT)
HalfDegree == AngleScale \div 2
\* line 148: TARGET_ALTITUDE * 0.9 (66600.0 exactly in f64)
AscentExitApoapsis == (TARGET_ALTITUDE * 9) \div 10

\* ------------------------------------------------------------------- bounds
\* SRB fuel readings range over 0 .. MaxFuel
MaxFuel == 1

\* ------------------------------------------------------ telemetry readings
\* A StreamResult<T>: Ok(value) or Err.
Err == [ok |-> FALSE, v |-> 0]
Ok(x) == [ok |-> TRUE, v |-> x]
StreamResults(S) == {Err} \cup {Ok(x) : x \in S}

\* Sampled altitudes: the ends of the turn band, readings within and just
\* beyond half a degree of the initial angle, the middle of the band, and
\* the coast threshold.
Altitudes ==
  {TURN_START_ALT, TURN_START_ALT + 1, 499, 22625, TURN_END_ALT,
   COAST_ALTITUDE}
Apoapsides ==
  {AscentExitApoapsis - 1, AscentExitApoapsis, TARGET_ALTITUDE}
Fuels == 0 .. MaxFuel

\* The tuple get_telemetry_update returns, or the failure of recv_update.
NoUpdate ==
  [recv |-> FALSE, ut |-> Err, apoapsis |-> Err, altitude |-> Err,
   srb_fuel |-> Err, tta |-> Err]
get_telemetry_update ==
  {NoUpdate} \cup
  [recv : {TRUE}, ut : StreamResults({0}), apoapsis : StreamResults(Apoapsides),
   altitude : StreamResults(Altitudes), srb_fuel : StreamResults(Fuels),
   tta : {Err}]

VARIABLES
  pc,                  \* position of main
  turn_angle,          \* line 94
  srb_seperated,       \* line 95
  srb_fuel_seen_valid, \* line 96
  update,              \* the telemetry update of the current loop iteration
  ran,                 \* the decisions the current iteration evaluated
  cmds,                \* the remote commands the last step issued, in order
  new_angle,           \* new_turn_angle of the current iteration, if computed
  throttles,           \* the throttle commands issued so far, in order
  srb_stagings,        \* activate_next_stage calls issued by the ascent loop
  fuel_was_positive,   \* some earlier tick carried a resolved fuel reading > 0
  altitudes_rising,    \* the last resolved altitude of the ascent loop while
                       \* its resolved altitudes have never decreased
  call_failed,         \* some one-shot remote call has failed
  delta_v,             \* line 228, m/s
  burn_time            \* line 255, quarter seconds

vars ==
  <<pc, turn_angle, srb_seperated, srb_fuel_seen_valid, update, ran, cmds,
    new_angle, throttles, srb_stagings, fuel_was_positive,
    altitudes_rising, call_failed, delta_v, burn_time>>

ascent_state == <<turn_angle, srb_seperated, srb_fuel_seen_valid>>
plan == <<delta_v, burn_time>>

NoCmd == <<>>
Cmd(op, a, b) == <<[op |-> op, a |-> a, b |-> b]>>
Issued(op) == \E i \in DOMAIN cmds : cmds[i].op = op

Init ==
  /\ pc = "connect"
  /\ turn_angle = 0
  /\ srb_seperated = FALSE
  /\ srb_fuel_seen_valid = FALSE
  /\ update = NoUpdate
  /\ ran = {}
  /\ cmds = NoCmd
  /\ new_angle = Err
  /\ throttles = <<>>
  /\ srb_stagings = 0
  /\ fuel_was_positive = FALSE
  /\ altitudes_rising = Ok(0)
  /\ call_failed = FALSE
  /\ delta_v = 0
  /\ burn_time = 0

\* A step that makes one-shot calls whose results are all unwrapped with `?`:
\* any failure returns Err from main.
OneShot(from, to, ok, c) ==
  /\ pc = from
  /\ pc' = IF ok THEN to ELSE "failed"
  /\ call_failed' = (call_failed \/ ~ok)
  /\ cmds' = c
  /\ update' = NoUpdate
  /\ ran' = {}
  /\ new_angle' = Err

\* lines 17-19: RPCClient::connect and StreamClient::connect
Connect ==
  /\ \E ok \in BOOLEAN : OneShot("connect", "get_vessel", ok, NoCmd)
  /\ UNCHANGED <<ascent_state, altitudes_rising, throttles, srb_stagings, fuel_was_positive, plan>>

\* lines 27-30
GetVessel ==
  /\ \E ok \in BOOLEAN : OneShot("get_vessel", "init_control", ok, NoCmd)
  /\ UNCHANGED <<ascent_state, altitudes_rising, throttles, srb_stagings, fuel_was_positive, plan>>

\* lines 34-49: the batch and each of its five results are unwrapped
InitControlPlane ==
  /\ \E batch \in BOOLEAN, results \in [1..5 -> BOOLEAN] :
       OneShot("init_control", "start_telemetry",
               batch /\ \A i \in 1..5 : results[i], NoCmd)
  /\ UNCHANGED <<ascent_state, altitudes_rising, throttles, srb_stagings, fuel_was_positive, plan>>

\* lines 52-65
StartTelemetry ==
  /\ \E batch \in BOOLEAN, results \in [1..4 -> BOOLEAN] :
       OneShot("start_telemetry", "prepare_launch",
               batch /\ \A i \in 1..4 : results[i], NoCmd)
  /\ UNCHANGED <<ascent_state, altitudes_rising, throttles, srb_stagings, fuel_was_positive, plan>>

\* A batch whose tuple of results is dropped (`let _ = batch_call!(..)?`):
\* only the failure of the batch itself returns Err from main.
DroppedBatch(from, to, batch, results, c) ==
  /\ pc = from
  /\ pc' = IF batch THEN to ELSE "failed"
  /\ call_failed' = (call_failed \/ ~batch \/ \E i \in DOMAIN results : ~results[i])
  /\ cmds' = c
  /\ update' = NoUpdate
  /\ ran' = {}
  /\ new_angle' = Err

\* lines 68-75: set_sas(false), set_rcs(false), set_throttle(1.0)
PrepareLaunch ==
  /\ \E batch \in BOOLEAN, results \in [1..3 -> BOOLEAN] :
       DroppedBatch("prepare_launch", "countdown", batch, results,
                    Cmd("set_throttle", 100, 0))
  /\ throttles' = Append(throttles, 100)
  /\ UNCHANGED <<ascent_state, altitudes_rising, srb_stagings, fuel_was_positive, plan>>

\* line 79 and lib.rs 13-20: ten one-second sleeps, no remote call
countdown ==
  /\ pc = "countdown"
  /\ pc' = "launch"
  /\ cmds' = NoCmd
  /\ UNCHANGED <<ascent_state, altitudes_rising, update, ran, new_angle, throttles, srb_stagings,
                 fuel_was_positive, call_failed, plan>>

\* lines 84-91: activate_next_stage, engage, target_pitch_and_heading(90, 90)
Launch ==
  /\ \E batch \in BOOLEAN, results \in [1..3 -> BOOLEAN] :
       DroppedBatch("launch", "ascent", batch, results,
                    Cmd("target_pitch_and_heading", 90 * AngleScale, 90))
  /\ UNCHANGED <<ascent_state, altitudes_rising, throttles, srb_stagings, fuel_was_positive, plan>>

\* Fault: the offset TURN_START_ALT is left out of frac.
new_turn_angle_NoOffset(altitude) == altitude * DegPerMetre

\* Fault: the pitch, which falls from 90 to 0, is taken for the turn angle.
new_turn_angle_Pitch(altitude) == (TURN_END_ALT - altitude) * DegPerMetre

\* line 118-120: frac * 90
new_turn_angle(altitude) == (altitude - TURN_START_ALT) * DegPerMetre

Abs(x) == IF x < 0 THEN 0 - x ELSE x

\* Fault: the pattern binds the altitude result without matching Ok.
AscentGate_ApoapsisOnly(u) == u.recv /\ u.apoapsis.ok

\* line 114: the pattern that admits a tick to the loop body
AscentGate(u) == u.recv /\ u.apoapsis.ok /\ u.altitude.ok

\* Fault: the upper end of the band is not checked.
InTurnBand_NoUpper(altitude) == altitude > TURN_START_ALT

\* line 116
InTurnBand(altitude) == altitude > TURN_START_ALT /\ altitude < TURN_END_ALT

\* Fault: the hysteresis is 5 degrees.
TurnDue_Coarse(altitude, angle) ==
  Abs((altitude - TURN_START_ALT) * DegPerMetre - angle) > 10 * HalfDegree

\* Fault: any difference triggers an update.
TurnDue_NoHysteresis(altitude, angle) ==
  (altitude - TURN_START_ALT) * DegPerMetre # angle

\* line 122
TurnDue(altitude, angle) == Abs(new_turn_angle(altitude) - angle) > HalfDegree

\* lines 134-136
SeenValid(seen, fuel) == seen \/ fuel > 0

\* Fault: the debounce flag is not consulted.
StagingDue_NoDebounce(seen, fuel) == fuel <= 0

\* line 138
StagingDue(seen, fuel) == fuel <= 0 /\ seen

\* Fault: the flag is assigned the outcome of this tick.
Seperated_Overwrite(seperated, staged) == staged

\* line 141: set once the staging call has returned Ok
Seperated(seperated, staged) == seperated \/ staged

\* Fault: the exit threshold is one metre low.
AscentExit_Early(apoapsis) == apoapsis + 1 >= AscentExitApoapsis

\* line 148
AscentExit(apoapsis) == apoapsis >= AscentExitApoapsis

\* lines 97-153: one iteration of the ascent loop on update u.  pitch_ok and
\* stage_ok are the outcomes of the two mk_call's the iteration may make.
AscentBody(u, pitch_ok, stage_ok) ==
  LET altitude == u.altitude.v
      turn == InTurnBand(altitude) /\ TurnDue(altitude, turn_angle)
      pitch_failed == turn /\ ~pitch_ok
      check == ~pitch_failed /\ u.srb_fuel.ok /\ ~srb_seperated
      seen == IF check THEN SeenValid(srb_fuel_seen_valid, u.srb_fuel.v)
              ELSE srb_fuel_seen_valid
      stage == check /\ StagingDue(seen, u.srb_fuel.v)
      stage_failed == stage /\ ~stage_ok
      failed == pitch_failed \/ stage_failed
  IN
  /\ turn_angle' = IF turn THEN new_turn_angle(altitude) ELSE turn_angle
  /\ srb_fuel_seen_valid' = seen
  /\ srb_seperated' = Seperated(srb_seperated, stage /\ stage_ok)
  /\ srb_stagings' = srb_stagings + (IF stage THEN 1 ELSE 0)
  /\ new_angle' = IF InTurnBand(altitude) THEN Ok(new_turn_angle(altitude)) ELSE Err
  /\ cmds' = (IF turn
               THEN Cmd("target_pitch_and_heading",
                        90 * AngleScale - new_turn_angle(altitude), 90)
               ELSE NoCmd)
             \o (IF stage THEN Cmd("activate_next_stage", 0, 0) ELSE NoCmd)
  /\ call_failed' = (call_failed \/ failed)
  /\ ran' = {"pitch"}
            \cup (IF ~pitch_failed /\ u.srb_fuel.ok THEN {"staging"} ELSE {})
            \cup (IF ~failed THEN {"exit"} ELSE {})
  /\ pc' = IF failed THEN "failed"
           ELSE IF AscentExit(u.apoapsis.v) THEN "throttle25"
           ELSE "ascent"

\* The outcomes of a mk_call: Ok or Err when the call is made.
MkCall(made) == IF made THEN BOOLEAN ELSE {TRUE}

\* line 124 is reached / line 140 is reached (given line 124 did not fail)
PitchCall(u) == InTurnBand(u.altitude.v) /\ TurnDue(u.altitude.v, turn_angle)
StageCall(u) ==
  /\ u.srb_fuel.ok
  /\ ~srb_seperated
  /\ StagingDue(SeenValid(srb_fuel_seen_valid, u.srb_fuel.v), u.srb_fuel.v)

AscentTick ==
  /\ pc = "ascent"
  /\ \E u \in get_telemetry_update :
       /\ update' = u
       /\ fuel_was_positive' =
            (fuel_was_positive \/ (u.srb_fuel.ok /\ u.srb_fuel.v > 0))
       /\ altitudes_rising' =
            IF u.recv /\ u.altitude.ok
              THEN IF altitudes_rising.ok /\ u.altitude.v >= altitudes_rising.v
                     THEN Ok(u.altitude.v) ELSE Err
              ELSE altitudes_rising
       /\ IF AscentGate(u)
            THEN \E pitch_ok \in MkCall(PitchCall(u)),
                    stage_ok \in MkCall(StageCall(u)) :
                   AscentBody(u, pitch_ok, stage_ok)
            ELSE /\ ran' = {}
                 /\ cmds' = NoCmd
                 /\ new_angle' = Err
                 /\ UNCHANGED <<pc, ascent_state, srb_stagings, call_failed>>
  /\ UNCHANGED <<throttles, plan>>

\* line 157: set_throttle(0.25)
LowerThrottle ==
  /\ \E ok \in BOOLEAN :
       OneShot("throttle25", "fine_tune", ok, Cmd("set_throttle", 25, 0))
  /\ throttles' = Append(throttles, 25)
  /\ altitudes_rising' = Ok(0)
  /\ UNCHANGED <<ascent_state, srb_stagings, fuel_was_positive, plan>>

\* Fault: a failed apoapsis reading counts as reaching the target.
TargetReached_Unresolved(u) ==
  u.recv /\ (~u.apoapsis.ok \/ u.apoapsis.v >= TARGET_ALTITUDE)

\* line 175-176
TargetReached(u) == u.recv /\ u.apoapsis.ok /\ u.apoapsis.v >= TARGET_ALTITUDE

\* lines 159-180: one iteration of the apoapsis-targeting loop
FineTuneTick ==
  /\ pc = "fine_tune"
  /\ \E u \in get_telemetry_update :
       /\ update' = u
       /\ ran' = IF u.recv /\ u.apoapsis.ok THEN {"target"} ELSE {}
       /\ pc' = IF TargetReached(u) THEN "cut_throttle" ELSE "fine_tune"
  /\ cmds' = NoCmd
  /\ new_angle' = Err
  /\ UNCHANGED <<ascent_state, altitudes_rising, throttles, srb_stagings, fuel_was_positive,
                 call_failed, plan>>

\* line 184: set_throttle(0.0)
CutThrottle ==
  /\ \E ok \in BOOLEAN :
       OneShot("cut_throttle", "coast", ok, Cmd("set_throttle", 0, 0))
  /\ throttles' = Append(throttles, 0)
  /\ UNCHANGED <<ascent_state, altitudes_rising, srb_stagings, fuel_was_positive, plan>>

\* Fault: the coast gate also waits for the apoapsis reading.
OutOfAtmosphere_Gated(u) ==
  u.recv /\ u.apoapsis.ok /\ u.altitude.ok /\ u.altitude.v >= COAST_ALTITUDE

\* lines 204-205
OutOfAtmosphere(u) == u.recv /\ u.altitude.ok /\ u.altitude.v >= COAST_ALTITUDE

\* lines 188-209: one iteration of the coast loop
CoastTick ==
  /\ pc = "coast"
  /\ \E u \in get_telemetry_update :
       /\ update' = u
       /\ ran' = IF u.recv /\ u.altitude.ok THEN {"coast"} ELSE {}
       /\ pc' = IF OutOfAtmosphere(u) THEN "plan" ELSE "coast"
  /\ cmds' = NoCmd
  /\ new_angle' = Err
  /\ UNCHANGED <<ascent_state, altitudes_rising, throttles, srb_stagings, fuel_was_positive,
                 call_failed, plan>>

\* ------------------------------------------------- circularization planner
\* Inputs read from the vehicle (lines 214-221, 230-233, 240-247).  mu is in
\* units of 1e8 m^3/s^2, radii in km, thrust in N, specific impulse in s,
\* mass in kg; a transfer orbit and an already circular one.
Orbits ==
  {[mu |-> 35316, a2 |-> 750, a1 |-> 700], [mu |-> 35316, a2 |-> 750, a1 |-> 750]}
Vessels == {[f |-> 50000, isp |-> 300, m0 |-> 10000]}
Uts == {4000}
Ttas == {240, 1200}
\* readings of the time-to-apoapsis stream, quarter seconds
TtaReadings == {0, 30, 31, 1200}

\* f64::sqrt, rounded down to a whole number
ISqrt(n) == CHOOSE x \in 0 .. 4000 : x * x <= n /\ n < (x + 1) * (x + 1)

\* lines 226-227: mu * ((2. / a2) - (1. / a)) in m^2/s^2, as
\* mu * (2a - a2) / (a2 * a), to the nearest 100
SpeedSquared(mu, a2, a) ==
  LET q == mu * (2 * a - a2)
      d == a2 * a
  IN (q \div d) * 100000 + (((q % d) * 1000) \div d) * 100

\* lines 226-228: v2 - v1, m/s
DeltaV(o) ==
  ISqrt(SpeedSquared(o.mu, o.a2, o.a2)) - ISqrt(SpeedSquared(o.mu, o.a2, o.a1))

\* 1 - exp(-x) for x in units of 1e-5, by its series to the third order
OneMinusExpNeg(x) ==
  LET x2 == (x * x) \div 200000
  IN x - x2 + (x2 * x) \div 300000

\* lines 250-255: (m0 - m0 / exp(delta_v / isp)) / (f / isp) with
\* isp = specific impulse * 9.82, in quarter seconds
BurnTime(dv, v) ==
  LET isp == (v.isp * 982) \div 100
      x == (dv * 100000) \div isp
  IN (OneMinusExpNeg(x) * ((v.m0 * isp) \div v.f) * 4) \div 100000

\* lines 213-228: get_body, the batch (mu, apoapsis, semi-major axis), delta_v
PlanDeltaV ==
  /\ \E ok \in BOOLEAN, o \in Orbits :
       /\ OneShot("plan", "add_node", ok, NoCmd)
       /\ delta_v' = IF ok THEN DeltaV(o) ELSE delta_v
  /\ UNCHANGED <<ascent_state, altitudes_rising, throttles, srb_stagings, fuel_was_positive, burn_time>>

\* lines 230-237: the batch (ut, time_to_apoapsis), then add_node
CreateNode ==
  /\ \E read \in BOOLEAN, ok \in BOOLEAN, ut \in Uts, tta \in Ttas :
       OneShot("add_node", "burn_time", read /\ ok,
               IF read THEN Cmd("add_node", ut + tta, delta_v) ELSE NoCmd)
  /\ UNCHANGED <<ascent_state, altitudes_rising, throttles, srb_stagings, fuel_was_positive, plan>>

\* lines 240-255: the batch (thrust, specific impulse, mass), burn_time
CalcBurnTime ==
  /\ \E ok \in BOOLEAN, v \in Vessels :
       /\ OneShot("burn_time", "orient", ok, NoCmd)
       /\ burn_time' = IF ok THEN BurnTime(delta_v, v) ELSE burn_time
  /\ UNCHANGED <<ascent_state, altitudes_rising, throttles, srb_stagings, fuel_was_positive, delta_v>>

\* ------------------------------------------------------------ burn executor
\* lines 261-268: node frame, set_reference_frame, get_prograde
Orient ==
  /\ \E ok \in BOOLEAN : OneShot("orient", "target_direction", ok, NoCmd)
  /\ UNCHANGED <<ascent_state, altitudes_rising, throttles, srb_stagings, fuel_was_positive, plan>>

\* lines 274-277: set_target_pitch, set_target_heading
SetTargetDirection ==
  /\ \E batch \in BOOLEAN, results \in [1..2 -> BOOLEAN] :
       DroppedBatch("target_direction", "wait", batch, results,
                    Cmd("set_target_pitch_heading", 0, 0))
  /\ UNCHANGED <<ascent_state, altitudes_rising, throttles, srb_stagings, fuel_was_positive, plan>>

\* line 280: auto_pilot.wait()
WaitOriented ==
  /\ \E ok \in BOOLEAN : OneShot("wait", "warp", ok, NoCmd)
  /\ UNCHANGED <<ascent_state, altitudes_rising, throttles, srb_stagings, fuel_was_positive, plan>>

\* Fault: the lead time is added to burn_ut.
WarpTarget_Late(ut, tta) == 2 * (ut + tta) - burn_time + 2 * (5 * 4)

\* lines 302-305: burn_ut - lead_time, in eighths of a second
WarpTarget(ut, tta) == 2 * (ut + tta) - burn_time - 2 * (5 * 4)

\* lines 298-305: the batch (ut, time_to_apoapsis), then warp_to
Warp ==
  /\ \E read \in BOOLEAN, ok \in BOOLEAN, ut \in Uts, tta \in Ttas :
       OneShot("warp", "tta_stream", read /\ ok,
               IF read THEN Cmd("warp_to", WarpTarget(ut, tta), 0) ELSE NoCmd)
  /\ UNCHANGED <<ascent_state, altitudes_rising, throttles, srb_stagings, fuel_was_positive, plan>>

\* line 309
StartTtaStream ==
  /\ \E ok \in BOOLEAN : OneShot("tta_stream", "burn_wait", ok, NoCmd)
  /\ UNCHANGED <<ascent_state, altitudes_rising, throttles, srb_stagings, fuel_was_positive, plan>>

\* lines 312-317: recv_update and get_result on the time-to-apoapsis handle
recv_update ==
  {NoUpdate} \cup
  [recv : {TRUE}, ut : {Err}, apoapsis : {Err}, altitude : {Err},
   srb_fuel : {Err}, tta : StreamResults(TtaReadings)]

\* Fault: a failed reading is read as the default 0.
BurnWindow_Default(u) == u.recv /\ 2 * u.tta.v - burn_time <= 0

\* lines 317-318: tta - burn_time / 2 <= 0
BurnWindow(u) == u.recv /\ u.tta.ok /\ 2 * u.tta.v - burn_time <= 0

\* lines 311-322: one iteration of the burn wait loop
BurnWaitTick ==
  /\ pc = "burn_wait"
  /\ \E u \in recv_update :
       /\ update' = u
       /\ ran' = IF u.recv /\ u.tta.ok THEN {"window"} ELSE {}
       /\ pc' = IF BurnWindow(u) THEN "execute" ELSE "burn_wait"
  /\ cmds' = NoCmd
  /\ new_angle' = Err
  /\ UNCHANGED <<ascent_state, altitudes_rising, throttles, srb_stagings, fuel_was_positive,
                 call_failed, plan>>

\* line 325: set_throttle(1.0)
ExecuteBurn ==
  /\ \E ok \in BOOLEAN :
       OneShot("execute", "sleep", ok, Cmd("set_throttle", 100, 0))
  /\ throttles' = Append(throttles, 100)
  /\ UNCHANGED <<ascent_state, altitudes_rising, srb_stagings, fuel_was_positive, plan>>

\* line 328: Duration::from_secs_f32 panics on a negative argument
SleepPanics == burn_time - 2 < 0

\* Fault: the disabled fine-tuning of lines 330-331 is live and throttles
\* down to 5% after the sleep.
BurnSleep_FineTuning ==
  /\ pc = "sleep"
  /\ pc' = IF burn_time - 2 < 0 THEN "panicked" ELSE "done"
  /\ cmds' = IF burn_time - 2 < 0 THEN NoCmd ELSE Cmd("set_throttle", 5, 0)
  /\ throttles' = IF burn_time - 2 < 0 THEN throttles ELSE Append(throttles, 5)
  /\ UNCHANGED <<ascent_state, altitudes_rising, update, ran, new_angle,
                 srb_stagings, fuel_was_positive, call_failed, plan>>

\* lines 328-335: sleep for burn_time - 0.5 s, then Ok(())
BurnSleep ==
  /\ pc = "sleep"
  /\ pc' = IF SleepPanics THEN "panicked" ELSE "done"
  /\ cmds' = NoCmd
  /\ UNCHANGED <<ascent_state, altitudes_rising, update, ran, new_angle, throttles, srb_stagings,
                 fuel_was_positive, call_failed, plan>>

\* ------------------------------------------------------------------ claims
\* The update of the state is an ascent tick that main went on from without
\* a failed remote call.
AscentTicked == pc \in {"ascent", "throttle25"} /\ update.recv

\* C1: the ascent loop issues the SRB staging command at most once, and only
\* on a tick whose resolved fuel reading is <= 0 after an earlier tick whose
\* resolved fuel reading was > 0.
C1_StagingOnceAfterPositive ==
  [][srb_stagings' # srb_stagings =>
       /\ pc = "ascent"
       /\ srb_stagings = 0 /\ srb_stagings' = 1
       /\ update'.recv /\ update'.srb_fuel.ok /\ update'.srb_fuel.v <= 0
       /\ fuel_was_positive]_vars

\* C1: the SRBs were staged by the loop and the loop went on.
C1_Witness == srb_stagings = 1 /\ srb_seperated /\ pc = "ascent"

\* C2 (as claimed): on every ascent tick of a run without a failed call the staging check runs whenever
\* the fuel reading resolved, the pitch update whenever the altitude reading
\* resolved and the exit check whenever the apoapsis reading resolved.
C2_EachDecisionOwnReading ==
  (AscentTicked /\ ~call_failed) =>
    /\ update.srb_fuel.ok => "staging" \in ran
    /\ update.altitude.ok => "pitch" \in ran
    /\ update.apoapsis.ok => "exit" \in ran

\* C3: the apoapsis-targeting phase ends on exactly the ticks whose resolved
\* apoapsis reading is >= TARGET_ALTITUDE, issues no command before that, and
\* the throttle-0 command is issued only after it has ended.
C3_TargetPhaseEnds ==
  [][/\ pc = "fine_tune" =>
          /\ pc' \in {"fine_tune", "cut_throttle"}
          /\ (pc' = "cut_throttle") <=>
               (update'.recv /\ update'.apoapsis.ok
                /\ update'.apoapsis.v >= TARGET_ALTITUDE)
          /\ cmds' = <<>> /\ throttles' = throttles
     /\ throttles' # throttles /\ throttles'[Len(throttles')] = 0 =>
          pc = "cut_throttle"]_vars

\* C3: the phase ended on a tick whose other readings had failed.
C3_Witness ==
  /\ pc = "cut_throttle"
  /\ update.apoapsis = Ok(TARGET_ALTITUDE)
  /\ ~update.altitude.ok /\ ~update.srb_fuel.ok

\* C4: an ascent tick changes turn_angle or emits a pitch command only when
\* the new angle differs from turn_angle by more than half a degree; a tick
\* that re-enters the gravity turn with the altitude of the previous tick
\* changes neither.
C4_GravityTurnIdempotent ==
  [][pc = "ascent" =>
       /\ (turn_angle' # turn_angle \/ Issued("target_pitch_and_heading")') =>
            /\ AscentGate(update') /\ new_angle'.ok
            /\ 2 * Abs(new_angle'.v - turn_angle) > AngleScale
            /\ turn_angle' = new_angle'.v
       /\ (AscentGate(update) /\ AscentGate(update')
           /\ update'.altitude = update.altitude) =>
            /\ turn_angle' = turn_angle
            /\ ~Issued("target_pitch_and_heading")']_vars

\* C4: a tick inside the turn band found turn_angle already at its altitude's
\* angle and emitted nothing.
C4_Witness ==
  /\ pc = "ascent" /\ AscentGate(update)
  /\ new_angle.ok /\ new_angle.v = turn_angle /\ turn_angle > 0
  /\ ~Issued("target_pitch_and_heading")

\* new_turn_angle = 90 * (a - TURN_START_ALT) / (TURN_END_ALT - TURN_START_ALT),
\* cross-multiplied (both sides divided by 50), and within [0, 90] degrees
IsPitchProgramAngle(angle, a) ==
  /\ angle * ((TURN_END_ALT - TURN_START_ALT) \div 50)
       = (a - TURN_START_ALT) * ((90 * AngleScale) \div 50)
  /\ 0 <= angle /\ angle <= 90 * AngleScale

\* C5 (as claimed): for every resolved altitude a of a tick the loop body
\* handles with TURN_START_ALT <= a <= TURN_END_ALT, both ends included, the
\* pitch program computes the angle of the formula.
C5_ClosedBand ==
  (AscentTicked /\ AscentGate(update) /\ ~call_failed
   /\ TURN_START_ALT <= update.altitude.v /\ update.altitude.v <= TURN_END_ALT) =>
    new_angle.ok /\ IsPitchProgramAngle(new_angle.v, update.altitude.v)

\* C5 (amended): for TURN_START_ALT < a < TURN_END_ALT the pitch program
\* computes the angle of the formula, strictly between 0 and 90 degrees; at
\* and outside the ends of the band it computes nothing.
C5_OpenBand ==
  (AscentTicked /\ AscentGate(update)) =>
    IF TURN_START_ALT < update.altitude.v /\ update.altitude.v < TURN_END_ALT
      THEN /\ new_angle.ok
           /\ IsPitchProgramAngle(new_angle.v, update.altitude.v)
           /\ 0 < new_angle.v /\ new_angle.v < 90 * AngleScale
      ELSE ~new_angle.ok

\* C5: the middle of the band gives 45 degrees.
C5_Witness ==
  /\ AscentTicked /\ AscentGate(update)
  /\ update.altitude.v = 22625 /\ new_angle = Ok(45 * AngleScale)

\* C6 (as claimed): when the ascent phase has ended, no remote call having
\* failed, srb_seperated is true.
C6_SeparatedWhenAscentEnds ==
  (pc = "throttle25" /\ ~call_failed) => srb_seperated /\ srb_stagings = 1

\* C6 (amended): srb_seperated turns true at most once, only in the ascent
\* loop and together with the loop's only staging command, and once true it
\* stays true.
C6_SeparatedAtMostOnce ==
  [][/\ srb_seperated => srb_seperated'
     /\ (~srb_seperated /\ srb_seperated') =>
          /\ pc = "ascent"
          /\ srb_stagings = 0 /\ srb_stagings' = 1
          /\ Issued("activate_next_stage")']_vars

\* C6: the flag set during the ascent is still set in the coast phase.
C6_Witness == pc = "coast" /\ srb_seperated /\ srb_stagings = 1

\* C7 (as claimed): with delta_v <= 0 and hence burn_time <= 0, no remote
\* call having failed, the burn executor neither commands throttle 1.0 nor panics on a negative sleep.
C7_DegenerateBurnIsNoOp ==
  (pc \in {"execute", "sleep", "panicked", "done"}
   /\ delta_v <= 0 /\ burn_time <= 0 /\ ~call_failed) =>
    pc # "panicked" /\ Len(throttles) < 4

\* C8 (as claimed): once a one-shot remote call has failed, alone or inside
\* a batch, main has returned the error.
C8_CallFailureIsFatal == call_failed => pc = "failed"

\* C9: the ascent loop is left for the 25%-throttle step only on a tick
\* whose resolved apoapsis reading is >= 0.9 * TARGET_ALTITUDE, and the
\* 25% command is issued only by that step.
C9_AscentEndsOnApoapsis ==
  [][/\ (pc = "ascent" /\ pc' # "ascent") =>
          \/ pc' = "failed"
          \/ /\ pc' = "throttle25"
             /\ update'.recv /\ update'.apoapsis.ok
             /\ update'.apoapsis.v * 10 >= TARGET_ALTITUDE * 9
     /\ throttles' # throttles /\ throttles'[Len(throttles')] = 25 =>
          pc = "throttle25"]_vars

\* C9: the loop was left on a reading at the threshold.
C9_Witness ==
  pc = "throttle25" /\ update.apoapsis.ok
  /\ update.apoapsis.v * 10 = TARGET_ALTITUDE * 9

\* C10: the coast gate ends on exactly the ticks whose resolved altitude
\* reading is >= 70500, whatever the other readings, and issues no command.
C10_CoastGate ==
  [][pc = "coast" =>
       /\ pc' \in {"coast", "plan"}
       /\ (pc' = "plan") <=>
            (update'.recv /\ update'.altitude.ok /\ update'.altitude.v >= 70500)
       /\ cmds' = <<>>]_vars

\* C10: the gate ended on a tick whose time, apoapsis and fuel readings failed.
C10_Witness ==
  /\ pc = "plan" /\ update.altitude.ok
  /\ ~update.ut.ok /\ ~update.apoapsis.ok /\ ~update.srb_fuel.ok

\* C11: in every phase a tick whose reading failed to resolve performs no
\* comparison, state update or command that depends on that reading: a
\* failed altitude reading leaves turn_angle and the pitch alone and does not
\* end the coast gate, a failed fuel reading leaves the staging flags and
\* the stage alone, a failed apoapsis reading ends neither the ascent nor
\* the targeting phase, a failed time-to-apoapsis reading does not start the
\* burn.
C11_FailedReadingIsNoInformation ==
  [][/\ (pc = "ascent" /\ ~update'.altitude.ok) =>
          /\ turn_angle' = turn_angle
          /\ ~Issued("target_pitch_and_heading")'
          /\ "pitch" \notin ran'
     /\ (pc = "ascent" /\ ~update'.srb_fuel.ok) =>
          /\ srb_fuel_seen_valid' = srb_fuel_seen_valid
          /\ srb_seperated' = srb_seperated
          /\ ~Issued("activate_next_stage")'
          /\ "staging" \notin ran'
     /\ (pc \in {"ascent", "fine_tune"} /\ ~update'.apoapsis.ok) =>
          pc' = pc /\ ran' \cap {"exit", "target"} = {}
     /\ (pc = "coast" /\ ~update'.altitude.ok) =>
          pc' = pc /\ "coast" \notin ran'
     /\ (pc = "burn_wait" /\ ~update'.tta.ok) =>
          pc' = pc /\ "window" \notin ran']_vars

\* C11: a burn-wait tick arrived without a time-to-apoapsis reading and the
\* loop went on.
C11_Witness == pc = "burn_wait" /\ update.recv /\ ~update.tta.ok

\* C12: turn_angle is within [0, 90] degrees, and every pitch command of the
\* gravity turn has pitch = 90 - turn_angle within [0, 90] and heading 90.
C12_TurnAngleInRange ==
  /\ 0 <= turn_angle /\ turn_angle <= 90 * AngleScale
  /\ \A i \in DOMAIN cmds :
       cmds[i].op = "target_pitch_and_heading" =>
         /\ cmds[i].a = 90 * AngleScale - turn_angle
         /\ 0 <= cmds[i].a /\ cmds[i].a <= 90 * AngleScale
         /\ cmds[i].b = 90

\* C12: the gravity turn commanded a pitch of 45 degrees.
C12_Witness ==
  /\ pc = "ascent" /\ turn_angle = 45 * AngleScale
  /\ \E i \in DOMAIN cmds :
       cmds[i] = [op |-> "target_pitch_and_heading", a |-> 45 * AngleScale, b |-> 90]

\* C13: while the resolved altitude readings of the ascent have never
\* decreased, no tick decreases turn_angle; a tick the loop body handles
\* whose altitude is inside the band and whose angle lies more than half a
\* degree below turn_angle sets turn_angle to that smaller angle.
C13_TurnFollowsAltitude ==
  [][pc = "ascent" =>
       /\ altitudes_rising'.ok => turn_angle' >= turn_angle
       /\ (/\ AscentGate(update')
           /\ TURN_START_ALT < update'.altitude.v
           /\ update'.altitude.v < TURN_END_ALT
           /\ 2 * (turn_angle - (update'.altitude.v - TURN_START_ALT) * DegPerMetre)
                > AngleScale) =>
            /\ turn_angle' = (update'.altitude.v - TURN_START_ALT) * DegPerMetre
            /\ turn_angle' < turn_angle]_vars

\* C13: the altitude fell back to just above the start of the band and the
\* turn angle was re-derived from it (from 0 it would not have been due).
C13_Witness ==
  /\ pc = "ascent" /\ ~altitudes_rising.ok
  /\ update.altitude = Ok(TURN_START_ALT + 1)
  /\ turn_angle = DegPerMetre
  /\ Issued("target_pitch_and_heading")

\* The steps of main up to the launch, and the order of the throttle levels
\* (percent) main commands.
ThrottleOrder == <<100, 25, 0, 100>>
ThrottlesAt(position) ==
  CASE position \in {"connect", "get_vessel", "init_control", "start_telemetry",
                     "prepare_launch"} -> 0
    [] position \in {"countdown", "launch", "ascent", "throttle25"} -> 1
    [] position \in {"fine_tune", "cut_throttle"} -> 2
    [] position \in {"coast", "plan", "add_node", "burn_time", "orient",
                     "target_direction", "wait", "warp", "tta_stream",
                     "burn_wait", "execute"} -> 3
    [] position \in {"sleep", "panicked", "done"} -> 4

\* C14: every throttle command is within [0, 1]; the commands are 1.0, 0.25,
\* 0.0, 1.0 in this order, each issued by its own step (so none inside the
\* ascent loop, the coast gate, the planner or after the burn's), and once
\* the burn's command is issued the last commanded throttle stays 1.0.
C14_ThrottleOrder ==
  /\ \A i \in DOMAIN throttles : 0 <= throttles[i] /\ throttles[i] <= 100
  /\ Len(throttles) <= 4
  /\ throttles = SubSeq(ThrottleOrder, 1, Len(throttles))
  /\ pc # "failed" => Len(throttles) = ThrottlesAt(pc)
  /\ (\E i \in DOMAIN cmds : cmds[i].op = "set_throttle") =>
       /\ throttles # <<>>
       /\ cmds = Cmd("set_throttle", throttles[Len(throttles)], 0)
  /\ pc \in {"sleep", "panicked", "done"} => throttles[Len(throttles)] = 100

\* C14: main returned Ok after the four commands.
C14_Witness == pc = "done" /\ throttles = <<100, 25, 0, 100>>

\* C15: the burn's throttle-1.0 command is issued only by the step that
\* follows the burn wait; the wait is left only on a resolved
\* time-to-apoapsis reading with tta - burn_time/2 <= 0; the wait is entered
\* only after warp_to(ut + tta - burn_time/2 - 5 s) returned, which is
\* requested only after the orientation wait returned, which follows the
\* computation of burn_time and the creation of the node at ut + tta with
\* delta_v; burn_time is not changed in between.
C15_BurnOrdering ==
  [][/\ (Len(throttles) = 3 /\ Len(throttles') = 4) => pc = "execute"
     /\ (pc' = "execute" /\ pc' # pc) =>
          /\ pc = "burn_wait"
          /\ update'.recv /\ update'.tta.ok
          /\ 2 * update'.tta.v <= burn_time
     /\ (pc' = "burn_wait" /\ pc' # pc) => pc = "tta_stream"
     /\ (pc' = "tta_stream" /\ pc' # pc) =>
          /\ pc = "warp"
          /\ \E ut \in Uts, tta \in Ttas :
               cmds' = Cmd("warp_to", 2 * (ut + tta) - burn_time - 40, 0)
     /\ (pc' = "warp" /\ pc' # pc) => pc = "wait"
     /\ (pc' = "wait" /\ pc' # pc) => pc = "target_direction"
     /\ (pc' = "target_direction" /\ pc' # pc) => pc = "orient"
     /\ (pc' = "orient" /\ pc' # pc) => pc = "burn_time"
     /\ (pc' = "burn_time" /\ pc' # pc) =>
          /\ pc = "add_node"
          /\ \E ut \in Uts, tta \in Ttas : cmds' = Cmd("add_node", ut + tta, delta_v)
     /\ pc \in {"orient", "target_direction", "wait", "warp", "tta_stream",
                "burn_wait", "execute", "sleep"} => burn_time' = burn_time]_vars

\* C15: the burn of 15.25 s was started on the reading tta = 7.5 s.
C15_Witness ==
  /\ pc = "sleep" /\ Len(throttles) = 4 /\ burn_time = 61
  /\ cmds = Cmd("set_throttle", 100, 0)

\* C18: after every ascent tick in which the apoapsis and the altitude
\* resolved and TURN_START_ALT < altitude < TURN_END_ALT, turn_angle differs
\* from 90 * (altitude - TURN_START_ALT) / (TURN_END_ALT - TURN_START_ALT)
\* by at most half a degree (cross-multiplied as in IsPitchProgramAngle).
C18_TrackingBound ==
  (/\ AscentTicked \/ (pc = "failed" /\ "pitch" \in ran)
   /\ update.recv /\ update.apoapsis.ok /\ update.altitude.ok
   /\ TURN_START_ALT < update.altitude.v /\ update.altitude.v < TURN_END_ALT) =>
    2 * Abs(turn_angle * ((TURN_END_ALT - TURN_START_ALT) \div 50)
            - (update.altitude.v - TURN_START_ALT) * ((90 * AngleScale) \div 50))
      <= AngleScale * ((TURN_END_ALT - TURN_START_ALT) \div 50)

\* C18: a tick inside the band was within the hysteresis of turn_angle and
\* left it alone.
C18_Witness ==
  /\ AscentTicked /\ AscentGate(update)
  /\ new_angle.ok /\ new_angle.v # turn_angle
  /\ turn_angle > 0

\* C19: an ascent tick whose receive failed, or whose apoapsis or altitude
\* reading failed to resolve, leaves turn_angle, srb_seperated and
\* srb_fuel_seen_valid unchanged, issues no command and stays in the loop.
C19_SkippedTickFrame ==
  [][(pc = "ascent"
      /\ (~update'.recv \/ ~update'.apoapsis.ok \/ ~update'.altitude.ok)) =>
       /\ turn_angle' = turn_angle
       /\ srb_seperated' = srb_seperated
       /\ srb_fuel_seen_valid' = srb_fuel_seen_valid
       /\ cmds' = <<>>
       /\ srb_stagings' = srb_stagings /\ throttles' = throttles
       /\ pc' = "ascent"]_vars

\* C19: a tick with a failed altitude reading, an apoapsis past the exit
\* threshold and an empty SRB after fuel was seen left the loop as it was.
C19_Witness ==
  /\ pc = "ascent" /\ update.recv
  /\ ~update.altitude.ok
  /\ update.apoapsis = Ok(TARGET_ALTITUDE)
  /\ update.srb_fuel = Ok(0)
  /\ srb_fuel_seen_valid /\ ~srb_seperated

Next ==
  \/ Connect
  \/ GetVessel
  \/ InitControlPlane
  \/ StartTelemetry
  \/ PrepareLaunch
  \/ countdown
  \/ Launch
  \/ AscentTick
  \/ LowerThrottle
  \/ FineTuneTick
  \/ CutThrottle
  \/ CoastTick
  \/ PlanDeltaV
  \/ CreateNode
  \/ CalcBurnTime
  \/ Orient
  \/ SetTargetDirection
  \/ WaitOriented
  \/ Warp
  \/ StartTtaStream
  \/ BurnWaitTick
  \/ ExecuteBurn
  \/ BurnSleep

Spec == Init /\ [][Next]_vars

\* main is one thread that runs until it returns, fails or panics: a step
\* that can be taken is eventually taken.
FairSpec == Spec /\ WF_vars(Next)

\* Every loop that reads telemetry sees each of its readings resolve
\* infinitely often, each reading taken on its own.
ReadingsResolve ==
  /\ []<>(pc \in {"ascent", "fine_tune", "coast"} =>
            update.recv /\ update.apoapsis.ok)
  /\ []<>(pc \in {"ascent", "fine_tune", "coast"} =>
            update.recv /\ update.altitude.ok)
  /\ []<>(pc \in {"ascent", "fine_tune", "coast"} =>
            update.recv /\ update.srb_fuel.ok)
  /\ []<>(pc = "burn_wait" => update.recv /\ update.tta.ok)

\* The resolved apoapsis eventually stays at or above TARGET_ALTITUDE, the
\* resolved altitude at or above 70500, and the resolved time to apoapsis at
\* or below half the burn time.
ThresholdsMet ==
  /\ <>[](update.apoapsis.ok => update.apoapsis.v >= TARGET_ALTITUDE)
  /\ <>[](update.altitude.ok => update.altitude.v >= COAST_ALTITUDE)
  /\ <>[](update.tta.ok => 2 * update.tta.v <= burn_time)

\* C20: if no remote call fails, every reading resolves infinitely often and
\* the readings eventually stay past their thresholds, the program
\* eventually prints "Launch complete".
C20_Terminates ==
  ([](~call_failed) /\ ReadingsResolve /\ ThresholdsMet) => <>(pc = "done")

====
